---- MODULE Spec2Model ----
(***************************************************************************)
(* GameDev Mentor (src/app.py): a Streamlit chat front-end.  Every widget  *)
(* event re-runs main() top to bottom against st.session_state.  The model *)
(* has one action per widget event; each action is a whole run of main().  *)
(* A run that submits chat text blocks inside generate_response(); the     *)
(* rest of that run is the action CallReturns or CallRaises.               *)
(*                                                                         *)
(* Events are serialised: a widget fires only between runs (phase "Idle"). *)
(* Temperature is kept in tenths (the slider step is 0.1), a text is a     *)
(* string, the exported document is its sequence of lines, and the system  *)
(* prompt is the tuple of the settings values it interpolates, the literal *)
(* text around them being the same in every prompt.                        *)
(***************************************************************************)
EXTENDS Integers, Sequences, FiniteSets, TLC

VARIABLES
    apiKey,       \* OPENAI_API_KEY in the process environment
    sessionKeys,  \* the keys present in st.session_state
    messages,     \* st.session_state.messages, the stored Conversation
    settings,     \* st.session_state.settings
    client,       \* st.session_state.client
    widgets,      \* the values the sidebar widgets hold
    rendered,     \* the controls the last run put on the page
    shown,        \* the notices the last run put on the page
    download,     \* the export document the last run offered, <<>> if none
    phase,        \* "NotStarted", "Idle", "AwaitingReply" or "Crashed"
    event,        \* the widget event that triggered the last run
    echoed,       \* the chat bubbles the last run wrote for its own exchange
    inflight      \* the completion requests on the wire

vars == <<apiKey, sessionKeys, messages, settings, client, widgets,
          rendered, shown, download, phase, event, echoed, inflight>>

-----------------------------------------------------------------------------
(* Bounds of the model *)

MaxTurns == 3
MaxHistory == 61

(* Inputs the events draw from *)

UserTexts == {"how do I start?", "explain the game loop"}
Replies == {"Start small.", "A loop updates and draws."}
KeyStates == {"absent", "empty", "set"}
SettingInputs ==
    [model |-> {"gpt-4", "gpt-3.5-turbo"},
     level |-> {"Beginner"},
     engine |-> {"Unity", "Godot"},
     language |-> {"C#"},
     track |-> {"2D"},
     mode |-> {"Tutor"},
     temperature |-> {4, 15},
     max_tokens |-> {1200}]

-----------------------------------------------------------------------------
(* Constants of the program *)

WindowSize == 60

StarterPlanText == "Create a 4-week learning plan for me to start making small games."

starters ==
    <<"Give me a beginner roadmap for making a 2D platformer.",
      "Explain the game loop and update vs. fixed update in simple terms.",
      "Write a simple player movement script and explain each line.",
      "How do I structure a small game project folder?",
      "Help me pick the right engine for my goals.",
      "Design a small practice project for this week.">>

default_settings ==
    [model |-> "gpt-4", level |-> "Beginner", engine |-> "Unity",
     language |-> "C#", track |-> "2D", mode |-> "Tutor",
     temperature |-> 4, max_tokens |-> 1200]

NoEvent == [widget |-> "none", value |-> ""]

Turn(role, content) == [role |-> role, content |-> content]

-----------------------------------------------------------------------------
(* Python list slicing history[i:] for a negative or non-negative i *)

SliceFrom(s, i) ==
    LET n == Len(s)
        j == IF i < 0 THEN i + n ELSE i
        start == IF j < 0 THEN 0 ELSE IF j > n THEN n ELSE j
    IN  SubSeq(s, start + 1, n)

(* OpenAI(): the constructor reads OPENAI_API_KEY and raises when the      *)
(* variable is not set; an empty value is accepted.                        *)
OpenAI(key) ==
    IF key = "absent" THEN [raised |-> TRUE, handle |-> "none"]
    ELSE [raised |-> FALSE, handle |-> "OpenAI"]

(* init_state: fills the missing keys in order; the run ends there when    *)
(* the client cannot be constructed.                                       *)
init_state(ss) ==
    LET m == IF "messages" \in ss.keys THEN ss.messages ELSE <<>>
        s == IF "settings" \in ss.keys THEN ss.settings ELSE default_settings
        k == ss.keys \cup {"messages", "settings"}
        c == OpenAI(apiKey)
    IN  IF "client" \in ss.keys
        THEN [raised |-> FALSE,
              ss |-> [keys |-> k, messages |-> m, settings |-> s, client |-> ss.client]]
        ELSE IF c.raised
        THEN [raised |-> TRUE,
              ss |-> [keys |-> k, messages |-> m, settings |-> s, client |-> ss.client]]
        ELSE [raised |-> FALSE,
              ss |-> [keys |-> k \cup {"client"}, messages |-> m, settings |-> s,
                      client |-> c.handle]]

(* api_key_warning: the notices it adds *)
api_key_warning(key) == IF key = "set" THEN {} ELSE {"warning"}

Heading(role) ==
    CASE role = "user" -> "## User"
      [] role = "assistant" -> "## Assistant"
      [] role = "system" -> "## System"
      [] OTHER -> "## "

RECURSIVE ExportLines(_)
ExportLines(history) ==
    IF history = <<>> THEN <<>>
    ELSE <<"", Heading(history[1].role), "", history[1].content>>
         \o ExportLines(Tail(history))

(* export_chat: the lines of "\n".join(out), every element of out ending   *)
(* in a newline of its own                                                 *)
export_chat(history) == <<"# GameDev Mentor Chat Export">> \o ExportLines(history)

(* The handlers of the buttons, each on the stored list *)
(* New Chat that leaves the list as it is *)
new_chat_keep(msgs) == msgs

new_chat(msgs) == <<>>

(* Insert Starter Plan that assigns the list instead of appending to it *)
insert_starter_plan_assign(msgs) == <<Turn("user", StarterPlanText)>>

(* Insert Starter Plan that puts the turn at the front of the list *)
insert_starter_plan_front(msgs) == <<Turn("user", StarterPlanText)>> \o msgs

insert_starter_plan(msgs) == Append(msgs, Turn("user", StarterPlanText))

quick_starter(msgs, i) == Append(msgs, Turn("user", starters[i]))

(* A submission whose user turn is shown but not stored *)
append_user_skip(msgs, text) == msgs

append_user(msgs, text) == Append(msgs, Turn("user", text))

(* A reply that overwrites the last stored turn *)
append_assistant_overwrite(msgs, reply) ==
    IF msgs = <<>> THEN <<Turn("assistant", reply)>>
    ELSE [msgs EXCEPT ![Len(msgs)] = Turn("assistant", reply)]

append_assistant(msgs, reply) == Append(msgs, Turn("assistant", reply))

(* A failure that stores the error text as the assistant's turn *)
on_error_store(msgs, e) == Append(msgs, Turn("assistant", e))

on_error(msgs, e) == msgs

(* render_sidebar: the buttons, then settings := the widgets' values *)
render_sidebar(ss, ev, w) ==
    LET m == IF ev.widget = "New Chat" THEN new_chat(ss.messages)
             ELSE IF ev.widget = "Insert Starter Plan" THEN insert_starter_plan(ss.messages)
             ELSE ss.messages
    IN  [ss |-> [ss EXCEPT !.messages = m, !.settings = w],
         shown |-> IF ev.widget = "New Chat" THEN {"toast"} ELSE {},
         download |-> IF ev.widget = "Export Chat" THEN export_chat(m) ELSE <<>>]

IsStarter(ev) == \E i \in 1..Len(starters) : ev.widget = "starter" /\ ev.value = starters[i]

StarterIndex(ev) == CHOOSE i \in 1..Len(starters) : ev.value = starters[i]

render_quick_starters(msgs, ev) ==
    IF IsStarter(ev) THEN quick_starter(msgs, StarterIndex(ev)) ELSE msgs

craft_system_prompt(s) ==
    <<s.engine, s.level, s.track, s.language, s.mode, s.engine, s.language>>

(* build_messages with the window the comment on line 126 speaks of *)
build_messages_30(system_prompt, history) ==
    [api |-> <<Turn("system", system_prompt)>> \o SliceFrom(history, 0 - 30),
     history |-> history]

(* build_messages that puts the system turn into the list it was given *)
build_messages_insert(system_prompt, history) ==
    LET all == <<Turn("system", system_prompt)>> \o history
    IN  [api |-> SliceFrom(all, 0 - WindowSize), history |-> all]

(* build_messages: the list it returns, and the list it was given as the   *)
(* call leaves it                                                          *)
build_messages(system_prompt, history) ==
    LET tail == SliceFrom(history, 0 - WindowSize)
    IN  [api |-> <<Turn("system", system_prompt)>> \o tail,
         history |-> history]

(* generate_response that sends the request a second time *)
generate_response_twice(c, model, msgs, temperature, max_tokens) ==
    LET r == [client |-> c, model |-> model, messages |-> msgs,
              temperature |-> temperature, max_tokens |-> max_tokens]
    IN  <<r, r>>

(* generate_response: the requests it puts on the wire *)
generate_response(c, model, msgs, temperature, max_tokens) ==
    <<[client |-> c, model |-> model, messages |-> msgs,
       temperature |-> temperature, max_tokens |-> max_tokens]>>

-----------------------------------------------------------------------------
Session == [keys |-> sessionKeys, messages |-> messages,
            settings |-> settings, client |-> client]

(* One run of main() for the event ev with the widgets holding w, up to    *)
(* the end of the run or to the blocking completion call.                  *)
Main(ev, w) ==
    LET i == init_state(Session)
    IN  IF i.raised
        THEN /\ sessionKeys' = i.ss.keys
             /\ messages' = i.ss.messages
             /\ settings' = i.ss.settings
             /\ client' = i.ss.client
             /\ rendered' = {}
             /\ shown' = {"exception"}
             /\ download' = <<>>
             /\ phase' = "Crashed"
             /\ echoed' = <<>>
             /\ inflight' = inflight
        ELSE LET sb == render_sidebar(i.ss, ev, w)
                 empty == sb.ss.messages = <<>>
                 qs == IF empty THEN render_quick_starters(sb.ss.messages, ev)
                       ELSE sb.ss.messages
                 submit == ev.widget = "chat_input" /\ ev.value # ""
                 bm == build_messages(craft_system_prompt(sb.ss.settings),
                                      append_user(qs, ev.value))
             IN  /\ sessionKeys' = sb.ss.keys
                 /\ settings' = sb.ss.settings
                 /\ client' = sb.ss.client
                 /\ rendered' = {"sidebar", "chat_input"}
                                \cup (IF empty THEN {"quick_starters"} ELSE {})
                 /\ shown' = api_key_warning(apiKey) \cup sb.shown
                             \cup (IF empty THEN {"info"} ELSE {})
                 /\ download' = sb.download
                 /\ echoed' = IF submit THEN <<Turn("user", ev.value)>> ELSE <<>>
                 /\ IF submit
                    THEN /\ messages' = bm.history
                         /\ inflight' = inflight \o
                               generate_response(sb.ss.client, sb.ss.settings.model, bm.api,
                                                 sb.ss.settings.temperature,
                                                 sb.ss.settings.max_tokens)
                         /\ phase' = "AwaitingReply"
                    ELSE /\ messages' = qs
                         /\ inflight' = inflight
                         /\ phase' = "Idle"

Run(ev, w) ==
    /\ Main(ev, w)
    /\ event' = ev
    /\ widgets' = w
    /\ apiKey' = apiKey

Usable(control) == phase = "Idle" /\ control \in rendered

-----------------------------------------------------------------------------
(* The events *)

Startup ==
    /\ phase = "NotStarted"
    /\ Run(NoEvent, widgets)

Rerun ==
    /\ phase \in {"Idle", "Crashed"}
    /\ Run(NoEvent, widgets)

NewChat ==
    /\ Usable("sidebar")
    /\ Run([widget |-> "New Chat", value |-> ""], widgets)

InsertStarterPlan ==
    /\ Usable("sidebar")
    /\ Len(messages) < MaxTurns
    /\ Run([widget |-> "Insert Starter Plan", value |-> ""], widgets)

ExportChat ==
    /\ Usable("sidebar")
    /\ Run([widget |-> "Export Chat", value |-> ""], widgets)

QuickStarter ==
    /\ Usable("quick_starters")
    /\ Len(messages) < MaxTurns
    /\ \E i \in 1..Len(starters) : Run([widget |-> "starter", value |-> starters[i]], widgets)

ChangeSetting ==
    /\ Usable("sidebar")
    /\ \E f \in DOMAIN SettingInputs : \E v \in SettingInputs[f] :
          LET w == [widgets EXCEPT ![f] = v]
          IN  /\ w # widgets
              /\ Run([widget |-> f, value |-> ""], w)

SubmitWithin(cap) ==
    /\ Usable("chat_input")
    /\ Len(messages) + 2 <= cap
    /\ \E text \in UserTexts : Run([widget |-> "chat_input", value |-> text], widgets)

ChatSubmit == SubmitWithin(MaxTurns)

EmptyInput ==
    /\ Usable("chat_input")
    /\ Run([widget |-> "chat_input", value |-> ""], widgets)

(* The completion call returns text: lines 197-198 *)
CallReturns ==
    /\ phase = "AwaitingReply"
    /\ inflight # <<>>
    /\ apiKey = "set"
    /\ \E reply \in Replies :
          /\ echoed' = Append(echoed, Turn("assistant", reply))
          /\ messages' = append_assistant(messages, reply)
          /\ inflight' = Tail(inflight)
          /\ phase' = "Idle"
          /\ UNCHANGED <<apiKey, sessionKeys, settings, client, widgets,
                         rendered, shown, download, event>>

(* The completion call raises: lines 193-195 *)
CallRaises ==
    /\ phase = "AwaitingReply"
    /\ inflight # <<>>
    /\ messages' = on_error(messages, "error")
    /\ inflight' = Tail(inflight)
    /\ shown' = shown \cup {"error"}
    /\ phase' = "Idle"
    /\ UNCHANGED <<apiKey, sessionKeys, settings, client, widgets,
                   rendered, download, event, echoed>>

Init ==
    /\ apiKey \in KeyStates
    /\ sessionKeys = {}
    /\ messages = <<>>
    /\ settings = default_settings
    /\ client = "none"
    /\ widgets = default_settings
    /\ rendered = {}
    /\ shown = {}
    /\ download = <<>>
    /\ phase = "NotStarted"
    /\ event = NoEvent
    /\ echoed = <<>>
    /\ inflight = <<>>

Next ==
    \/ Startup
    \/ Rerun
    \/ NewChat
    \/ InsertStarterPlan
    \/ ExportChat
    \/ QuickStarter
    \/ ChangeSetting
    \/ ChatSubmit
    \/ EmptyInput
    \/ CallReturns
    \/ CallRaises

Spec == Init /\ [][Next]_vars

-----------------------------------------------------------------------------
(* Long conversations: a session that already holds a history of up to     *)
(* MaxHistory turns, turn i carrying the text of the number i, takes one   *)
(* more exchange.                                                          *)

SeedTurn(i) == Turn(IF i % 2 = 1 THEN "user" ELSE "assistant", ToString(i))

SeedHistory(n) == [i \in 1..n |-> SeedTurn(i)]

InitWindow ==
    /\ apiKey \in {"empty", "set"}
    /\ sessionKeys = {"messages", "settings", "client"}
    /\ \E n \in 0..MaxHistory : messages = SeedHistory(n)
    /\ \E e \in SettingInputs.engine : settings = [default_settings EXCEPT !.engine = e]
    /\ client = "OpenAI"
    /\ widgets = settings
    /\ rendered = {"sidebar", "chat_input"}
                  \cup (IF messages = <<>> THEN {"quick_starters"} ELSE {})
    /\ shown = api_key_warning(apiKey) \cup (IF messages = <<>> THEN {"info"} ELSE {})
    /\ download = <<>>
    /\ phase = "Idle"
    /\ event = NoEvent
    /\ echoed = <<>>
    /\ inflight = <<>>

LongChatSubmit ==
    /\ messages = SeedHistory(Len(messages))
    /\ SubmitWithin(MaxHistory + 2)

NextWindow ==
    \/ LongChatSubmit
    \/ CallReturns
    \/ CallRaises

SpecWindow == InitWindow /\ [][NextWindow]_vars

-----------------------------------------------------------------------------
(* The steps the properties speak of *)

SubmitStep == phase = "Idle" /\ phase' = "AwaitingReply"

FailureStep == phase = "AwaitingReply" /\ phase' = "Idle" /\ "error" \in shown'

SuccessStep == phase = "AwaitingReply" /\ phase' = "Idle" /\ "error" \notin shown'

NewChatStep == phase = "Idle" /\ event'.widget = "New Chat"

StarterPlanStep == phase = "Idle" /\ event'.widget = "Insert Starter Plan"

Last(s) == s[Len(s)]

IsPrefix(s, t) == Len(s) <= Len(t) /\ SubSeq(t, 1, Len(s)) = s

LastTurns(s, k) == [i \in 1..k |-> s[Len(s) - k + i]]

Min(a, b) == IF a < b THEN a ELSE b

Roles(s) == [i \in 1..Len(s) |-> s[i].role]

AwaitingUserTurn ==
    phase = "AwaitingReply" =>
        /\ messages # <<>>
        /\ event.widget = "chat_input"
        /\ event.value # ""
        /\ Last(messages) = Turn("user", event.value)

\* C1: a submission of non-empty text appends the user's turn with that text,
\* and when the completion call then fails the Conversation stays as it is (the
\* prior Conversation plus that one user turn, no assistant turn) and the
\* session is Idle again with the chat input usable.
C1_FailureKeepsUserTurnOnly ==
    /\ []AwaitingUserTurn
    /\ [][/\ SubmitStep => messages' = Append(messages, Turn("user", event'.value))
          /\ FailureStep => /\ messages' = messages
                            /\ Last(messages').role = "user"
                            /\ inflight' = <<>>
                            /\ "chat_input" \in rendered']_vars

C1_Witness ==
    /\ phase = "Idle"
    /\ "error" \in shown
    /\ Len(messages) = 2
    /\ Last(messages) = Turn("user", event.value)
    /\ event.value \in UserTexts
    /\ "chat_input" \in rendered

\* C2: a submission of non-empty text appends the user's turn with that text,
\* and when the completion call then returns the text T the one further turn
\* appended is the assistant's turn with content T.
C2_SuccessAppendsUserThenAssistant ==
    /\ []AwaitingUserTurn
    /\ [][/\ SubmitStep => /\ messages' = Append(messages, Turn("user", event'.value))
                           /\ echoed' = <<Turn("user", event'.value)>>
          /\ SuccessStep => /\ Len(echoed') = 2
                            /\ echoed'[2].role = "assistant"
                            /\ echoed'[2].content \in Replies
                            /\ messages' = Append(messages,
                                                  Turn("assistant", echoed'[2].content))]_vars

C2_Witness ==
    /\ phase = "Idle"
    /\ Len(messages) = 3
    /\ Len(echoed) = 2
    /\ messages[2] = Turn("user", event.value)
    /\ messages[3] = Turn("assistant", echoed[2].content)

\* C3: the stored Conversation never holds a turn with role system.
C3_NoSystemTurnStored == \A i \in 1..Len(messages) : messages[i].role # "system"

C3_Witness ==
    /\ phase = "AwaitingReply"
    /\ inflight[1].messages[1].role = "system"
    /\ settings # default_settings
    /\ Len(messages) = 2
    /\ \A i \in 1..Len(messages) : messages[i].role # "system"

C5_AppendOnlyExceptReset ==
    [][IsPrefix(messages, messages') \/ (NewChatStep /\ messages' = <<>>)]_vars

C5_Witness ==
    /\ event.widget = "New Chat"
    /\ "toast" \in shown
    /\ messages = <<>>

\* C6: New Chat empties the Conversation and leaves the Settings and the client
\* handle as they were.
C6_NewChatClearsConversationOnly ==
    [][NewChatStep => /\ messages' = <<>>
                      /\ settings' = settings
                      /\ client' = client
                      /\ widgets' = widgets
                      /\ sessionKeys' = sessionKeys
                      /\ inflight' = inflight]_vars

C6_Witness ==
    /\ event.widget = "New Chat"
    /\ messages = <<>>
    /\ settings # default_settings
    /\ client = "OpenAI"
    /\ phase = "Idle"

\* C7: Insert Starter Plan appends the one fixed user turn to the end of the
\* Conversation and changes nothing else of the session; on an empty
\* Conversation the result is that one turn alone.
C7_StarterPlanAppendsFixedTurn ==
    [][StarterPlanStep =>
          /\ messages' = Append(messages,
                [role |-> "user",
                 content |-> "Create a 4-week learning plan for me to start making small games."])
          /\ (messages = <<>> => Len(messages') = 1)
          /\ settings' = settings
          /\ client' = client
          /\ inflight' = inflight
          /\ phase' = "Idle"]_vars

C7_Witness ==
    /\ event.widget = "Insert Starter Plan"
    /\ messages = <<[role |-> "user",
                     content |-> "Create a 4-week learning plan for me to start making small games."]>>

\* C8: with the API key absent from the environment the session still starts:
\* the warning is shown and the sidebar controls and the chat input are usable.
C8_StartsWithoutKey ==
    (apiKey = "absent" /\ phase # "NotStarted") =>
        /\ phase # "Crashed"
        /\ "warning" \in shown
        /\ {"sidebar", "chat_input"} \subseteq rendered

\* C9: a submission of non-empty text while Idle puts exactly one request on the
\* wire, a failed call is not sent again, at most one request is on the wire at
\* any time, and no other step sends a request.
C9_OneCallPerSubmission ==
    /\ [](Len(inflight) <= 1 /\ (phase = "AwaitingReply" <=> Len(inflight) = 1))
    /\ [][/\ Len(inflight') > Len(inflight) =>
                /\ Len(inflight') = Len(inflight) + 1
                /\ phase = "Idle"
                /\ event'.widget = "chat_input"
                /\ event'.value # ""
          /\ (phase = "Idle" /\ event'.widget = "chat_input" /\ event'.value # "") =>
                Len(inflight') = Len(inflight) + 1
          /\ (FailureStep \/ SuccessStep) => inflight' = <<>>]_vars

C9_Witness ==
    /\ phase = "AwaitingReply"
    /\ Len(inflight) = 1
    /\ event.value \in UserTexts
    /\ inflight[1].messages[Len(inflight[1].messages)] = Turn("user", event.value)

\* C10: every stored assistant turn is immediately preceded by a user turn.
C10_AssistantFollowsUser ==
    \A i \in 1..Len(messages) :
        messages[i].role = "assistant" => (i > 1 /\ messages[i - 1].role = "user")

C10_Witness ==
    /\ phase = "Idle"
    /\ Roles(messages) = <<"user", "user", "assistant">>

====
